---- MODULE Spec2Model ----
(***************************************************************************)
(* Model of recordService (packages/server/api/src/app/tables/record/      *)
(* record.service.ts): create, list, getById, update, delete and           *)
(* triggerWebhooks over the two-table storage model (records, cells).      *)
(***************************************************************************)
EXTENDS Bags, FiniteSets, Integers, Sequences, TLC

\* ------------------------------------------------------------------------
\* Bounds and fixed data
\* ------------------------------------------------------------------------

\* Number of record identifiers apId() hands out in one behaviour.
MaxRecords == 2

Projects == {"p1", "p2"}
Tables == {"t1", "t2"}
Values == {1, 2}

\* The value of `field?.id` when no field matches.
Undefined == "undefined"

\* Rows of the Field table (FieldEntity): name is unique per (table, project).
Fields ==
    { [id |-> "fa", name |-> "a", tableId |-> "t1", projectId |-> "p1"],
      [id |-> "fb", name |-> "b", tableId |-> "t1", projectId |-> "p1"] }

FieldIds == {f.id : f \in Fields}

Cell(k, v) == [key |-> k, value |-> v]

\* request.records of a create request: no payload, an empty payload, one
\* valid cell, one unknown key, the same key twice, and batches of two.
CreateBatches ==
    { << >>,
      << << >> >>,
      << << Cell("a", 1) >> >>,
      << << Cell("x", 1) >> >>,
      << << Cell("a", 1), Cell("a", 2) >> >>,
      << << Cell("a", 2), Cell("x", 1) >>, << >> >>,
      << << Cell("a", 1), Cell("b", 1) >>, << Cell("a", 2) >> >> }

\* request.cells of an update request, when the property is present.
UpdateCells ==
    { << >>,
      << Cell("a", 1) >>,
      << Cell("a", 2) >>,
      << Cell("x", 1) >>,
      << Cell("b", 1), Cell("x", 2) >>,
      << Cell("a", 1), Cell("a", 2) >> }

\* ------------------------------------------------------------------------
\* Errors and results
\* ------------------------------------------------------------------------

\* lastResult after a step that returns nothing to a caller.
NoResult == [op |-> "none"]

NoError == [code |-> "NONE"]
\* A storage call that throws: a fault of its own, or a violated constraint.
StorageError == [code |-> "STORAGE_ERROR"]
ConstraintError == [code |-> "CONSTRAINT_VIOLATION"]
EntityNotFound(type, id) ==
    [code |-> "ENTITY_NOT_FOUND", entityType |-> type, entityId |-> id]

\* ------------------------------------------------------------------------
\* State
\* ------------------------------------------------------------------------

VARIABLES
    records,     \* committed rows of the record table
    cells,       \* committed rows of the cell table (a bag of rows)
    nextId,      \* next identifier apId() returns for a record
    ctx,         \* the create call in flight (its transaction)
    dctx,        \* the delete call in flight
    lastResult,  \* what the step just taken returned or threw to its caller
    webhooks,    \* webhook subscriptions known to tableService
    publicUrl,   \* value of the PUBLIC_URL flag, or Nil
    wctx         \* the triggerWebhooks call in flight

vars == <<records, cells, nextId, ctx, dctx, lastResult, webhooks, publicUrl, wctx>>
hookVars == <<webhooks, publicUrl, wctx>>

\* ------------------------------------------------------------------------
\* Storage helpers
\* ------------------------------------------------------------------------

RecordRow(id, tableId, projectId) ==
    [id |-> id, tableId |-> tableId, projectId |-> projectId]

CellRow(recordId, fieldId, projectId, value) ==
    [recordId |-> recordId, fieldId |-> fieldId, projectId |-> projectId, value |-> value]

SameTriple(c1, c2) ==
    /\ c1.projectId = c2.projectId
    /\ c1.fieldId = c2.fieldId
    /\ c1.recordId = c2.recordId

\* relations: ['cells'] -- the cell rows joined to one record.
CellsOfRecord(cellBag, recordId) ==
    [c \in {x \in BagToSet(cellBag) : x.recordId = recordId} |-> cellBag[c]]

Populated(r, cellBag) ==
    [id |-> r.id, tableId |-> r.tableId, projectId |-> r.projectId,
     cells |-> CellsOfRecord(cellBag, r.id)]

RECURSIVE SeqToBag(_)
SeqToBag(s) ==
    IF s = << >> THEN EmptyBag
    ELSE SetToBag({Head(s)}) (+) SeqToBag(Tail(s))

\* The unique index of the cell table on (projectId, fieldId, recordId).
UniqueViolationUnchecked(cellBag) == FALSE

UniqueViolation(cellBag) ==
    \E c1, c2 \in BagToSet(cellBag) :
        /\ SameTriple(c1, c2)
        /\ (c1 # c2 \/ cellBag[c1] > 1)

\* Deleting records cascades to their cells.
CascadeCells(cellBag, deletedIds) ==
    [c \in {x \in BagToSet(cellBag) : x.recordId \notin deletedIds} |-> cellBag[c]]

\* ------------------------------------------------------------------------
\* create (record.service.ts 30-94)
\* ------------------------------------------------------------------------

\* FieldEntity find({ where: { tableId, projectId } }).
ExistingFields(tableId, projectId) ==
    {f \in Fields : f.tableId = tableId /\ f.projectId = projectId}

KeyExists(existingFields, key) == \E f \in existingFields : f.name = key

\* recordData.filter(cellData => existingFields.some(field => field.name === cellData.key))
ValidCellsUnfiltered(existingFields, recordData) == recordData

ValidCells(existingFields, recordData) ==
    SelectSeq(recordData, LAMBDA cellData : KeyExists(existingFields, cellData.key))

\* request.records.map(recordData => recordData.filter(...))
ValidRecords(existingFields, requestRecords) ==
    [i \in 1..Len(requestRecords) |-> ValidCells(existingFields, requestRecords[i])]

\* existingFields.find(f => f.name === cellData.key)?.id
FindFieldId(existingFields, key) ==
    IF KeyExists(existingFields, key)
    THEN (CHOOSE f \in existingFields : f.name = key).id
    ELSE Undefined

\* validRecords.map(() => ({ tableId, projectId, id: apId() }))
RecordInsertions(validRecords, tableId, projectId, firstId) ==
    [i \in 1..Len(validRecords) |-> RecordRow(firstId + i - 1, tableId, projectId)]

\* recordData.map(cellData => ({ recordId, fieldId: field?.id, projectId, value }))
CellsOfPayload(recordData, recordId, existingFields, projectId) ==
    [j \in 1..Len(recordData) |->
        CellRow(recordId, FindFieldId(existingFields, recordData[j].key),
                projectId, recordData[j].value)]

RECURSIVE FlatMapCells(_, _, _, _, _)
FlatMapCells(validRecords, recordInsertions, existingFields, projectId, i) ==
    IF i > Len(validRecords) THEN << >>
    ELSE CellsOfPayload(validRecords[i], recordInsertions[i].id, existingFields, projectId)
         \o FlatMapCells(validRecords, recordInsertions, existingFields, projectId, i + 1)

\* validRecords.flatMap((recordData, index) => recordData.map(...))
CellInsertions(validRecords, recordInsertions, existingFields, projectId) ==
    FlatMapCells(validRecords, recordInsertions, existingFields, projectId, 1)

Range(s) == {s[i] : i \in DOMAIN s}

\* entityManager.getRepository(RecordEntity).insert(rows): the rows are written
\* inside the transaction and stay pending until it commits.
CreateRecordInsertAutocommit(committed, pending, rows) ==
    [committed |-> committed \cup rows, pending |-> pending]

CreateRecordInsert(committed, pending, rows) ==
    [committed |-> committed, pending |-> pending \cup rows]

\* The record ids the create call in flight has generated.
CtxIds == IF ctx.pc \in {"insertCells", "refetch"}
          THEN {r.id : r \in Range(ctx.recordInsertions)} ELSE {}

IdleCtx == [pc |-> "idle"]

CreateRequests == [tableId : Tables, records : CreateBatches]

\* What a create call hands back: `inserted` lists the generated record ids in
\* payload order, `failedAt` names the storage step that threw (or "none"),
\* `fault` tells whether that step failed on its own (not on a constraint).
CreateResult(err, data, request, projectId, inserted, failedAt, fault) ==
    [op |-> "create", err |-> err, data |-> data, request |-> request,
     projectId |-> projectId, inserted |-> inserted, failedAt |-> failedAt,
     fault |-> fault]

CtxInserted == [i \in 1..Len(ctx.recordInsertions) |-> ctx.recordInsertions[i].id]

\* transaction(...) begins; existingFields = await find(...)
CreateFindFields ==
    /\ ctx.pc = "idle"
    /\ dctx.pc = "idle"
    /\ \E request \in CreateRequests, projectId \in Projects, ok \in BOOLEAN :
        /\ nextId + Len(request.records) - 1 <= MaxRecords
        /\ IF ok
           THEN /\ ctx' = [pc |-> "insertRecords", request |-> request,
                           projectId |-> projectId,
                           existingFields |-> ExistingFields(request.tableId, projectId)]
                /\ lastResult' = NoResult
           ELSE /\ ctx' = IdleCtx
                /\ lastResult' = CreateResult(StorageError, {}, request, projectId,
                                              << >>, "findFields", TRUE)
    /\ UNCHANGED <<records, cells, nextId, dctx, hookVars>>

\* validRecords, recordInsertions; await insert(recordInsertions)
CreateInsertRecords ==
    /\ ctx.pc = "insertRecords"
    /\ LET validRecords == ValidRecords(ctx.existingFields, ctx.request.records)
           recordInsertions == RecordInsertions(validRecords, ctx.request.tableId,
                                                ctx.projectId, nextId)
           ins == CreateRecordInsert(records, {}, Range(recordInsertions))
       IN /\ nextId' = nextId + Len(recordInsertions)
          /\ \E ok \in BOOLEAN :
               IF ok
               THEN /\ ctx' = [pc |-> "insertCells", request |-> ctx.request,
                               projectId |-> ctx.projectId,
                               existingFields |-> ctx.existingFields,
                               validRecords |-> validRecords,
                               recordInsertions |-> recordInsertions,
                               txRecords |-> ins.pending, txCells |-> EmptyBag]
                    /\ records' = ins.committed
                    /\ lastResult' = NoResult
               ELSE /\ ctx' = IdleCtx
                    /\ records' = records
                    /\ lastResult' =
                          CreateResult(StorageError, {}, ctx.request, ctx.projectId,
                                       [i \in 1..Len(recordInsertions) |->
                                            recordInsertions[i].id],
                                       "insertRecords", TRUE)
    /\ UNCHANGED <<cells, dctx, hookVars>>

\* cellInsertions; await insert(cellInsertions)
CreateInsertCells ==
    /\ ctx.pc = "insertCells"
    /\ LET cellInsertions == CellInsertions(ctx.validRecords, ctx.recordInsertions,
                                            ctx.existingFields, ctx.projectId)
           txCells == ctx.txCells (+) SeqToBag(cellInsertions)
       IN \E ok \in BOOLEAN :
            IF ok /\ ~UniqueViolation(cells (+) txCells)
            THEN /\ ctx' = [ctx EXCEPT !.pc = "refetch", !.txCells = txCells]
                 /\ lastResult' = NoResult
            ELSE /\ ctx' = IdleCtx
                 /\ lastResult' =
                       CreateResult(IF ok THEN ConstraintError ELSE StorageError, {},
                                    ctx.request, ctx.projectId, CtxInserted,
                                    "insertCells", ~ok)
    /\ UNCHANGED <<records, cells, nextId, dctx, hookVars>>

\* find({ where: { id: In(insertedRecordIds), tableId, projectId }, relations: ['cells'] })
CreateRefetchQueryInnerJoin(recordView, cellView, insertedRecordIds, tableId, projectId) ==
    {Populated(r, cellView) :
        r \in {x \in recordView : /\ x.id \in insertedRecordIds
                                  /\ x.tableId = tableId
                                  /\ x.projectId = projectId
                                  /\ CellsOfRecord(cellView, x.id) # EmptyBag}}

CreateRefetchQuery(recordView, cellView, insertedRecordIds, tableId, projectId) ==
    {Populated(r, cellView) :
        r \in {x \in recordView : /\ x.id \in insertedRecordIds
                                  /\ x.tableId = tableId
                                  /\ x.projectId = projectId}}

\* fullyPopulatedRecords = await find(...); the transaction commits; return
CreateRefetch ==
    /\ ctx.pc = "refetch"
    /\ \E ok \in BOOLEAN :
         IF ok
         THEN /\ records' = records \cup ctx.txRecords
              /\ cells' = cells (+) ctx.txCells
              /\ lastResult' =
                    CreateResult(NoError,
                                 CreateRefetchQuery(records \cup ctx.txRecords,
                                                    cells (+) ctx.txCells, CtxIds,
                                                    ctx.request.tableId, ctx.projectId),
                                 ctx.request, ctx.projectId, CtxInserted, "none", FALSE)
         ELSE /\ UNCHANGED <<records, cells>>
              /\ lastResult' =
                    CreateResult(StorageError, {}, ctx.request, ctx.projectId,
                                 CtxInserted, "refetch", TRUE)
    /\ ctx' = IdleCtx
    /\ UNCHANGED <<nextId, dctx, hookVars>>

\* ------------------------------------------------------------------------
\* getById (record.service.ts 163-186)
\* ------------------------------------------------------------------------

\* recordRepo().findOne({ where: { id, projectId }, relations: ['cells'] })
GetByIdQueryAnyProject(recordRows, cellBag, id, projectId) ==
    {Populated(r, cellBag) : r \in {x \in recordRows : x.id = id}}

GetByIdQuery(recordRows, cellBag, id, projectId) ==
    {Populated(r, cellBag) :
        r \in {x \in recordRows : x.id = id /\ x.projectId = projectId}}

RecordIds == 1..MaxRecords

GetByIdCall ==
    /\ \E id \in RecordIds, projectId \in Projects :
        LET record == GetByIdQuery(records, cells, id, projectId)
        IN lastResult' =
              [op |-> "getById", id |-> id, projectId |-> projectId,
               err |-> IF record = {} THEN EntityNotFound("Record", id) ELSE NoError,
               data |-> record]
    /\ UNCHANGED <<records, cells, nextId, ctx, dctx, hookVars>>

\* ------------------------------------------------------------------------
\* update (record.service.ts 188-265)
\* ------------------------------------------------------------------------

\* findOne({ where: { projectId, tableId, id } })
UpdateFindRecordAnyTable(recordRows, projectId, tableId, id) ==
    {r \in recordRows : r.projectId = projectId /\ r.id = id}

UpdateFindRecord(recordRows, projectId, tableId, id) ==
    {r \in recordRows : r.projectId = projectId /\ r.tableId = tableId /\ r.id = id}

\* request.cells.filter(cellData => existingFields.some(field => field.name === cellData.key))
UpdateValidCells(existingFields, requestCells) ==
    SelectSeq(requestCells, LAMBDA cellData : KeyExists(existingFields, cellData.key))

\* validCells.map(cellData => ({ recordId: id, fieldId: field?.id, projectId, value }))
CellsToUpsert(validCells, id, existingFields, projectId) ==
    [j \in 1..Len(validCells) |->
        CellRow(id, FindFieldId(existingFields, validCells[j].key),
                projectId, validCells[j].value)]

\* One row of upsert(rows, ['projectId', 'fieldId', 'recordId']): a stored row
\* with the same triple takes the new value, otherwise the row is inserted.
UpsertRowKeepOld(cellBag, row) ==
    IF \E c \in BagToSet(cellBag) : SameTriple(c, row)
    THEN cellBag
    ELSE cellBag (+) SetToBag({row})

UpsertRow(cellBag, row) ==
    LET hit == {c \in BagToSet(cellBag) : SameTriple(c, row)}
        rest == [c \in BagToSet(cellBag) \ hit |-> cellBag[c]]
        n == BagCardinality([c \in hit |-> cellBag[c]])
    IN IF hit = {} THEN cellBag (+) SetToBag({row})
       ELSE rest (+) [c \in {row} |-> n]

RECURSIVE Upsert(_, _)
Upsert(cellBag, rows) ==
    IF rows = << >> THEN cellBag
    ELSE Upsert(UpsertRow(cellBag, Head(rows)), Tail(rows))

\* Two rows of one upsert statement name the same conflict key.
RepeatsTriple(rows) ==
    \E i, j \in DOMAIN rows : i < j /\ SameTriple(rows[i], rows[j])

\* What a storage engine does with such a statement: refuse it, or apply the
\* rows in order.
RepeatPolicies == {"reject", "inOrder"}

\* if (isNil(record)) throw ENTITY_NOT_FOUND -- the check on the first lookup
RecordMissingNever(record) == FALSE

RecordMissing(record) == record = {}

\* hasCells is FALSE when the request carries no cells property.
UpdateRequests ==
    [tableId : Tables, hasCells : {TRUE}, cells : UpdateCells]
    \cup [tableId : Tables, hasCells : {FALSE}, cells : {<< >>}]

\* The storage effect and the outcome of one update call on committed rows.
UpdateOutcome(recordRows, cellBag, id, projectId, request, policy) ==
    LET tableId == request.tableId
        record == UpdateFindRecord(recordRows, projectId, tableId, id)
        hasCells == request.hasCells /\ Len(request.cells) > 0
        existingFields == ExistingFields(tableId, projectId)
        validCells == IF hasCells
                      THEN UpdateValidCells(existingFields, request.cells)
                      ELSE << >>
        cellsToUpsert == CellsToUpsert(validCells, id, existingFields, projectId)
        rejected == RepeatsTriple(cellsToUpsert) /\ policy = "reject"
        upserted == IF Len(cellsToUpsert) > 0
                    THEN Upsert(cellBag, cellsToUpsert) ELSE cellBag
        failed == rejected \/ UniqueViolation(upserted)
        updatedRecord == {Populated(r, upserted) :
                            r \in UpdateFindRecord(recordRows, projectId, tableId, id)}
    IN IF RecordMissing(record)
       THEN [err |-> EntityNotFound("Record", id), cells |-> cellBag, data |-> {},
             upserts |-> << >>]
       ELSE IF failed
       THEN [err |-> ConstraintError, cells |-> cellBag, data |-> {},
             upserts |-> cellsToUpsert]
       ELSE IF updatedRecord = {}
       THEN [err |-> EntityNotFound("Record", id), cells |-> cellBag, data |-> {},
             upserts |-> cellsToUpsert]
       ELSE [err |-> NoError, cells |-> upserted, data |-> updatedRecord,
             upserts |-> cellsToUpsert]

\* The whole update call: its transaction commits or rolls back as one step.
\* A call that finds no record reports only the key it looked up.
UpdateCall ==
    /\ \E id \in RecordIds, projectId \in Projects, request \in UpdateRequests,
          policy \in RepeatPolicies :
        LET out == UpdateOutcome(records, cells, id, projectId, request, policy)
            found == UpdateFindRecord(records, projectId, request.tableId, id) # {}
            \* the call before this one was a successful update that wrote a
            \* different value to a cell this call writes
            rewrites ==
                /\ lastResult.op = "update"
                /\ lastResult.err = NoError
                /\ \E i \in DOMAIN lastResult.upserts, j \in DOMAIN out.upserts :
                      /\ SameTriple(lastResult.upserts[i], out.upserts[j])
                      /\ lastResult.upserts[i].value # out.upserts[j].value
            \* this call writes a cell no stored cell conflicts with
            inserts ==
                \E j \in DOMAIN out.upserts :
                    \A c \in BagToSet(cells) : ~SameTriple(c, out.upserts[j])
        IN /\ (policy = "reject" => RepeatsTriple(out.upserts))
           /\ cells' = out.cells
           /\ lastResult' =
                 [op |-> "update", id |-> id, projectId |-> projectId,
                  request |-> IF found THEN request
                              ELSE [tableId |-> request.tableId],
                  found |-> found,
                  err |-> out.err, data |-> out.data, upserts |-> out.upserts,
                  rewrites |-> rewrites, inserts |-> inserts]
    /\ UNCHANGED <<records, nextId, ctx, dctx, hookVars>>

\* ------------------------------------------------------------------------
\* delete (record.service.ts 267-280)
\* ------------------------------------------------------------------------

\* where: { id: In(ids), projectId }
DeleteMatch(recordRows, ids, projectId) ==
    {r \in recordRows : r.id \in ids /\ r.projectId = projectId}

IdleDctx == [pc |-> "idle"]

\* records = await recordRepo().find({ where, relations: ['cells'] })
DeleteFind ==
    /\ dctx.pc = "idle"
    /\ ctx.pc = "idle"
    /\ \E ids \in SUBSET ((1..(nextId - 1)) \ CtxIds), projectId \in Projects :
        dctx' = [pc |-> "delete", ids |-> ids, projectId |-> projectId,
                 records |-> {Populated(r, cells) :
                                r \in DeleteMatch(records, ids, projectId)}]
    /\ lastResult' = NoResult
    /\ UNCHANGED <<records, cells, nextId, ctx, hookVars>>

\* await recordRepo().delete({ id: In(ids), projectId }); return records
DeleteRemove ==
    /\ dctx.pc = "delete"
    /\ LET matching == DeleteMatch(records, dctx.ids, dctx.projectId)
           gone == {r.id : r \in matching}
       IN /\ records' = records \ matching
          /\ cells' = CascadeCells(cells, gone)
          /\ lastResult' =
                [op |-> "delete", ids |-> dctx.ids, projectId |-> dctx.projectId,
                 err |-> NoError, data |-> dctx.records,
                 removed |-> {Populated(r, cells) : r \in matching}]
    /\ dctx' = IdleDctx
    /\ UNCHANGED <<nextId, ctx, hookVars>>

\* ------------------------------------------------------------------------
\* The record store
\* ------------------------------------------------------------------------

Nil == "nil"
IdleWctx == [pc |-> "idle"]

Init ==
    /\ records = {}
    /\ cells = EmptyBag
    /\ nextId = 1
    /\ ctx = IdleCtx
    /\ dctx = IdleDctx
    /\ lastResult = NoResult
    /\ webhooks = {}
    /\ publicUrl = Nil
    /\ wctx = IdleWctx

\* No create or delete call is between two of its storage steps.
Quiet == ctx.pc = "idle" /\ dctx.pc = "idle"

GetById == Quiet /\ GetByIdCall

Update == Quiet /\ UpdateCall

\* An update that commits between the find and the delete of a delete call.
RacingUpdate == dctx.pc = "delete" /\ UpdateCall

\* A getById that runs while a create transaction is open.
ObservingGetById == ctx.pc # "idle" /\ GetByIdCall

Next ==
    \/ CreateFindFields
    \/ CreateInsertRecords
    \/ CreateInsertCells
    \/ CreateRefetch
    \/ GetById
    \/ Update
    \/ DeleteFind
    \/ DeleteRemove

\* Calls run one at a time; create and delete advance one storage step at a time.
Spec == Init /\ [][Next]_vars

NextConcurrent ==
    \/ Next
    \/ RacingUpdate
    \/ ObservingGetById

\* Calls of other requests run between the storage steps of create and delete.
SpecConcurrent == Init /\ [][NextConcurrent]_vars

\* ------------------------------------------------------------------------
\* list (record.service.ts 96-161)
\* ------------------------------------------------------------------------

\* Longest filter list a list call is given.
MaxFilters == 2

\* FilterOperator; NoOperator is a filter without an operator property.
FilterOperators == {"EQ", "NEQ", "GT", "GTE", "LT", "LTE"}
NoOperator == "unset"

Filters == [fieldId : FieldIds, operator : FilterOperators \cup {NoOperator},
            value : Values]

\* const operator = filter.operator || FilterOperator.EQ; switch (operator) ...
Condition(filter) ==
    LET operator == IF filter.operator = NoOperator THEN "EQ" ELSE filter.operator
    IN CASE operator = "EQ" -> "="
         [] operator = "NEQ" -> "!="
         [] operator = "GT" -> ">"
         [] operator = "GTE" -> ">="
         [] operator = "LT" -> "<"
         [] operator = "LTE" -> "<="

\* c.value ${condition} :fieldValue
SqlCompare(value, condition, fieldValue) ==
    CASE condition = "=" -> value = fieldValue
      [] condition = "!=" -> value # fieldValue
      [] condition = ">" -> value > fieldValue
      [] condition = ">=" -> value >= fieldValue
      [] condition = "<" -> value < fieldValue
      [] condition = "<=" -> value <= fieldValue

\* queryBuilder.setParameters(subQuery.getParameters()): the subquery's
\* parameters { projectId, fieldId, fieldValue } overwrite those of the same
\* name already set on the query.
SetParameters(params, filter, projectId) ==
    [params EXCEPT !.projectId = projectId,
                   !.fieldId = filter.fieldId,
                   !.fieldValue = filter.value]

RECURSIVE ListParameters(_, _, _, _)
ListParameters(params, filters, projectId, i) ==
    IF i > Len(filters) THEN params
    ELSE ListParameters(SetParameters(params, filters[i], projectId),
                        filters, projectId, i + 1)

\* EXISTS (SELECT 1 FROM record r INNER JOIN cell c ... WHERE c.projectId =
\* :projectId AND c.fieldId = :fieldId AND r.id = record.id AND c.value
\* ${condition} :fieldValue), its parameters bound when the query runs.
ExistsSubQuery(cellBag, recordId, condition, params) ==
    \E c \in BagToSet(cellBag) :
        /\ c.projectId = params.projectId
        /\ c.fieldId = params.fieldId
        /\ c.recordId = recordId
        /\ SqlCompare(c.value, condition, params.fieldValue)

\* queryBuilder.getMany()
ListQuery(recordRows, cellBag, tableId, projectId, filters) ==
    LET params == ListParameters([tableId |-> tableId, projectId |-> projectId,
                                  fieldId |-> Undefined, fieldValue |-> 0],
                                 filters, projectId, 1)
    IN {Populated(r, cellBag) :
          r \in {x \in recordRows :
                   /\ x.tableId = params.tableId
                   /\ x.projectId = params.projectId
                   /\ \A i \in DOMAIN filters :
                         ExistsSubQuery(cellBag, x.id, Condition(filters[i]), params)}}

\* Filters that lists of two or more filters are built from.
PairFilters == {f \in Filters : f.operator \in {"EQ", "GTE"}}

FilterLists ==
    UNION {[1..k -> IF k <= 1 THEN Filters ELSE PairFilters] : k \in 0..MaxFilters}

List ==
    /\ \E tableId \in Tables, projectId \in Projects, filters \in FilterLists :
        lastResult' = [op |-> "list", tableId |-> tableId, projectId |-> projectId,
                       filters |-> filters, err |-> NoError,
                       data |-> ListQuery(records, cells, tableId, projectId, filters)]
    /\ UNCHANGED <<records, cells, nextId, ctx, dctx, hookVars>>

\* The tables list is run against: every record id in use, each record in one
\* of two tables of project p1, a record of table t1 holding at most one cell
\* per field.
ListRecordSets ==
    {rs \in SUBSET [id : RecordIds, tableId : Tables, projectId : {"p1"}] :
        \A i \in RecordIds : Cardinality({r \in rs : r.id = i}) = 1}

ListCellSets(rs) ==
    {cs \in SUBSET [recordId : RecordIds, fieldId : FieldIds, projectId : {"p1"},
                    value : Values] :
        /\ \A c1, c2 \in cs : SameTriple(c1, c2) => c1 = c2
        /\ \A c \in cs : \E r \in rs : r.id = c.recordId /\ r.tableId = "t1"}

InitList ==
    /\ records \in ListRecordSets
    /\ \E cs \in ListCellSets(records) : cells = SetToBag(cs)
    /\ nextId = MaxRecords + 1
    /\ ctx = IdleCtx
    /\ dctx = IdleDctx
    /\ lastResult = NoResult
    /\ webhooks = {}
    /\ publicUrl = Nil
    /\ wctx = IdleWctx

NextList == List

\* list, run on every such table with every filter list.
SpecList == InitList /\ [][NextList]_vars

\* ------------------------------------------------------------------------
\* triggerWebhooks (record.service.ts 282-344)
\* ------------------------------------------------------------------------

EventTypes == {"RECORD_CREATED", "RECORD_UPDATED"}
PublicUrlValue == "https://ap.example"
Payloads == {"payload1", "payload2"}
Authorizations == {"Bearer k1"}

\* The webhook subscriptions tableService may hold.
Subscriptions ==
    { [id |-> "w1", projectId |-> "p1", tableId |-> "t1",
       eventType |-> "RECORD_CREATED", flowId |-> "flow1"],
      [id |-> "w2", projectId |-> "p1", tableId |-> "t1",
       eventType |-> "RECORD_CREATED", flowId |-> "flow2"],
      [id |-> "w3", projectId |-> "p1", tableId |-> "t1",
       eventType |-> "RECORD_UPDATED", flowId |-> "flow3"],
      [id |-> "w4", projectId |-> "p2", tableId |-> "t2",
       eventType |-> "RECORD_CREATED", flowId |-> "flow1"] }

\* tableService.getWebhooks({ projectId, id: tableId, eventType })
GetWebhooks(subs, projectId, tableId, eventType) ==
    {w \in subs : /\ w.projectId = projectId
                  /\ w.tableId = tableId
                  /\ w.eventType = eventType}

\* if (webhooks.length > 0)
HasWebhooksAlways(found) == TRUE

HasWebhooks(found) == Cardinality(found) > 0

\* webhooks.map(webhook => ({ flowId: webhook.flowId, request: { body: data } }))
WebhookRequests(found, data) ==
    {[sub |-> w.id, flowId |-> w.flowId, body |-> data] : w \in found}

\* webhookService.handleWebhook({ async: true, flowId, data: { payload: { headers:
\* { authorization }, body } } }) -- one started delivery per request
StartedDeliveries(webhookRequests, authorization) ==
    {[sub |-> q.sub, flowId |-> q.flowId, body |-> q.body,
      authorization |-> authorization] : q \in webhookRequests}

\* How one call of webhookService.handleWebhook settles.
DeliveryOutcomes == {"fulfilled", "rejected"}
DeliveryError == [code |-> "DELIVERY_FAILED"]

\* Promise.all(promises): rejected as soon as one promise is rejected,
\* fulfilled once every promise is fulfilled, pending until then.
PromiseAllFirstSettled(started, pending, rejected) ==
    IF rejected # {} THEN "rejected"
    ELSE IF started = {} \/ pending # started THEN "fulfilled"
    ELSE "pending"

PromiseAll(started, pending, rejected) ==
    IF rejected # {} THEN "rejected"
    ELSE IF pending = {} THEN "fulfilled"
    ELSE "pending"

\* pending: the started deliveries that had not settled when the call ended
TriggerResult(call, err, flagRead, started, pending) ==
    [op |-> "triggerWebhooks", projectId |-> call.projectId,
     tableId |-> call.tableId, eventType |-> call.eventType,
     data |-> call.data, authorization |-> call.authorization,
     err |-> err, flagRead |-> flagRead, started |-> started,
     pending |-> pending]

\* webhooks = await tableService.getWebhooks(...); with none, return
TriggerGetWebhooks ==
    /\ wctx.pc = "idle"
    /\ \E projectId \in Projects, tableId \in Tables, eventType \in EventTypes,
          data \in Payloads, authorization \in Authorizations :
        LET call == [projectId |-> projectId, tableId |-> tableId,
                     eventType |-> eventType, data |-> data,
                     authorization |-> authorization]
            found == GetWebhooks(webhooks, projectId, tableId, eventType)
        IN IF HasWebhooks(found)
           THEN /\ wctx' = [pc |-> "flag", call |-> call,
                            webhookRequests |-> WebhookRequests(found, data)]
                /\ lastResult' = NoResult
           ELSE /\ wctx' = IdleWctx
                /\ lastResult' = TriggerResult(call, NoError, FALSE, {}, {})
    /\ UNCHANGED <<records, cells, nextId, ctx, dctx, webhooks, publicUrl>>

\* publicUrl = await flagService.getOne(PUBLIC_URL); nil throws; otherwise
\* every delivery is started
TriggerResolveFlag ==
    /\ wctx.pc = "flag"
    /\ IF publicUrl = Nil
       THEN /\ wctx' = IdleWctx
            /\ lastResult' = TriggerResult(wctx.call, EntityNotFound("Flag", "PUBLIC_URL"),
                                           TRUE, {}, {})
       ELSE /\ wctx' = [pc |-> "awaiting", call |-> wctx.call,
                        started |-> StartedDeliveries(wctx.webhookRequests,
                                                      wctx.call.authorization),
                        pending |-> StartedDeliveries(wctx.webhookRequests,
                                                      wctx.call.authorization),
                        rejected |-> {}]
            /\ lastResult' = NoResult
    /\ UNCHANGED <<records, cells, nextId, ctx, dctx, webhooks, publicUrl>>

\* One started delivery settles.
DeliveryCompletes ==
    /\ wctx.pc = "awaiting"
    /\ \E d \in wctx.pending, outcome \in DeliveryOutcomes :
        wctx' = [wctx EXCEPT !.pending = @ \ {d},
                             !.rejected = IF outcome = "rejected"
                                          THEN @ \cup {d} ELSE @]
    /\ lastResult' = NoResult
    /\ UNCHANGED <<records, cells, nextId, ctx, dctx, webhooks, publicUrl>>

\* await Promise.all(promises) settles: return, or rethrow the rejection
TriggerReturn ==
    /\ wctx.pc = "awaiting"
    /\ LET all == PromiseAll(wctx.started, wctx.pending, wctx.rejected)
       IN /\ all # "pending"
          /\ lastResult' = TriggerResult(wctx.call,
                                         IF all = "fulfilled" THEN NoError
                                         ELSE DeliveryError,
                                         TRUE, wctx.started, wctx.pending)
    /\ wctx' = IdleWctx
    /\ UNCHANGED <<records, cells, nextId, ctx, dctx, webhooks, publicUrl>>

InitHooks ==
    /\ records = {}
    /\ cells = EmptyBag
    /\ nextId = 1
    /\ ctx = IdleCtx
    /\ dctx = IdleDctx
    /\ lastResult = NoResult
    /\ webhooks \in SUBSET Subscriptions
    /\ publicUrl \in {Nil, PublicUrlValue}
    /\ wctx = IdleWctx

NextHooks ==
    \/ TriggerGetWebhooks
    \/ TriggerResolveFlag
    \/ DeliveryCompletes
    \/ TriggerReturn

\* The webhook dispatcher under every subscription set and flag value.
SpecHooks == InitHooks /\ [][NextHooks]_vars

\* ------------------------------------------------------------------------
\* Properties of the record store
\* ------------------------------------------------------------------------

\* The Field rows named `key` in the scope (tableId, projectId).
FieldsNamed(tableId, projectId, key) ==
    {f \in Fields : f.tableId = tableId /\ f.projectId = projectId /\ f.name = key}

KnownKey(tableId, projectId, key) == FieldsNamed(tableId, projectId, key) # {}

HasUnknownKey(cellData, tableId, projectId) ==
    \E i \in DOMAIN cellData : ~KnownKey(tableId, projectId, cellData[i].key)

RepeatsKnownKey(cellData, tableId, projectId) ==
    \E i, j \in DOMAIN cellData :
        /\ i < j
        /\ cellData[i].key = cellData[j].key
        /\ KnownKey(tableId, projectId, cellData[i].key)

\* The cell rows a payload must leave on record `recordId`: one per submitted
\* cell whose key names a field of the scope.
RECURSIVE AcceptedCells(_, _, _, _)
AcceptedCells(cellData, recordId, tableId, projectId) ==
    IF cellData = << >> THEN EmptyBag
    ELSE LET c == Head(cellData)
             rest == AcceptedCells(Tail(cellData), recordId, tableId, projectId)
         IN IF KnownKey(tableId, projectId, c.key)
            THEN SetToBag({CellRow(recordId,
                                   (CHOOSE f \in FieldsNamed(tableId, projectId, c.key) : TRUE).id,
                                   projectId, c.value)}) (+) rest
            ELSE rest

RowsOfTriple(cellBag, projectId, fieldId, recordId) ==
    [c \in {x \in BagToSet(cellBag) : /\ x.projectId = projectId
                                      /\ x.fieldId = fieldId
                                      /\ x.recordId = recordId} |-> cellBag[c]]

CreateSucceeded == lastResult.op = "create" /\ lastResult.err = NoError
UpdateSucceeded == lastResult.op = "update" /\ lastResult.err = NoError

\* C2: the cell table never holds two rows with the same
\* (projectId, fieldId, recordId), whatever create, update and delete calls ran,
\* also when a payload or an update request names one key more than once.
C2_NoTwoCellsShareTriple ==
    \A c1, c2 \in BagToSet(cells) :
        /\ cells[c1] = 1
        /\ (SameTriple(c1, c2) => c1 = c2)

\* An update that named one field twice went through and left a single row.
C2_Witness ==
    /\ UpdateSucceeded
    /\ RepeatsKnownKey(lastResult.request.cells, lastResult.request.tableId,
                       lastResult.projectId)
    /\ BagCardinality(CellsOfRecord(cells, lastResult.id)) = 1

\* C3: a submitted cell whose key names no field of the request's scope is
\* dropped silently: no stored cell has an undefined field, a create or update
\* carrying such a key succeeds (unless storage itself fails or the request
\* repeats a known key), and the record holds cells for the known keys only.
C3_UnknownKeysDropped ==
    /\ \A c \in BagToSet(cells) : c.fieldId # Undefined /\ c.fieldId \in FieldIds
    /\ (/\ lastResult.op = "create"
        /\ ~lastResult.fault
        /\ \E i \in DOMAIN lastResult.request.records :
              HasUnknownKey(lastResult.request.records[i],
                            lastResult.request.tableId, lastResult.projectId)
        /\ \A i \in DOMAIN lastResult.request.records :
              ~RepeatsKnownKey(lastResult.request.records[i],
                               lastResult.request.tableId, lastResult.projectId))
       => /\ lastResult.err = NoError
          /\ \A i \in DOMAIN lastResult.request.records :
                CellsOfRecord(cells, lastResult.inserted[i])
                    = AcceptedCells(lastResult.request.records[i],
                                    lastResult.inserted[i],
                                    lastResult.request.tableId, lastResult.projectId)
    /\ (/\ lastResult.op = "update"
        /\ lastResult.found
        /\ HasUnknownKey(lastResult.request.cells, lastResult.request.tableId,
                         lastResult.projectId)
        /\ ~RepeatsKnownKey(lastResult.request.cells, lastResult.request.tableId,
                            lastResult.projectId))
       => /\ lastResult.err = NoError
          /\ \A c \in BagToSet(CellsOfRecord(cells, lastResult.id)) :
                \E f \in Fields : /\ f.id = c.fieldId
                                  /\ f.tableId = lastResult.request.tableId
                                  /\ f.projectId = lastResult.projectId

\* A create whose payload mixes a known and an unknown key has returned.
C3_Witness ==
    /\ CreateSucceeded
    /\ \E i \in DOMAIN lastResult.request.records :
          /\ HasUnknownKey(lastResult.request.records[i],
                           lastResult.request.tableId, lastResult.projectId)
          /\ CellsOfRecord(cells, lastResult.inserted[i]) # EmptyBag

\* C4: a successful create returns as many records as it was given payloads;
\* a payload that is empty or loses all its cells still yields one record,
\* returned with no cells.
C4_OneRecordPerPayload ==
    CreateSucceeded =>
        /\ Cardinality(lastResult.data) = Len(lastResult.request.records)
        /\ \A i \in DOMAIN lastResult.request.records :
              (\A j \in DOMAIN lastResult.request.records[i] :
                    ~KnownKey(lastResult.request.tableId, lastResult.projectId,
                              lastResult.request.records[i][j].key))
              => \E r \in lastResult.data :
                    r.id = lastResult.inserted[i] /\ r.cells = EmptyBag

\* A create of two payloads returned, one of its records without cells.
C4_Witness ==
    /\ CreateSucceeded
    /\ Len(lastResult.request.records) = 2
    /\ \E r1, r2 \in lastResult.data : r1.cells = EmptyBag /\ r2.cells # EmptyBag

\* C5: after a successful update, each known field the request names has
\* exactly one cell on the record, holding the value the request gave it last;
\* so a second update of the same cell overwrites, and an update of a field
\* without a cell inserts one.
C5_UpsertKeepsOneLatestCell ==
    UpdateSucceeded =>
        \A j \in DOMAIN lastResult.request.cells :
            LET cd == lastResult.request.cells
                tableId == lastResult.request.tableId
                projectId == lastResult.projectId
                last == CHOOSE k \in DOMAIN cd :
                            /\ cd[k].key = cd[j].key
                            /\ \A m \in DOMAIN cd : cd[m].key = cd[j].key => m <= k
            IN KnownKey(tableId, projectId, cd[j].key) =>
                 LET fid == (CHOOSE f \in FieldsNamed(tableId, projectId, cd[j].key) : TRUE).id
                     rows == RowsOfTriple(cells, projectId, fid, lastResult.id)
                 IN /\ BagCardinality(rows) = 1
                    /\ \A c \in BagToSet(rows) : c.value = cd[last].value

\* Two successful updates in a row wrote different values to the same cell.
C5_Witness == UpdateSucceeded /\ lastResult.rewrites

\* C6: create is all or nothing. While its transaction is open, and after it
\* failed at any storage step, committed storage holds none of its records and
\* none of its cells, and the failure reaches the caller; once it returned,
\* every one of its records is stored with all its accepted cells.
C6_CreateAtomic ==
    /\ \A r \in records : r.id \notin CtxIds
    /\ \A c \in BagToSet(cells) : c.recordId \notin CtxIds
    /\ (lastResult.op = "create" /\ lastResult.fault) => lastResult.err # NoError
    /\ (lastResult.op = "create" /\ lastResult.err # NoError)
       => /\ lastResult.data = {}
          /\ \A i \in DOMAIN lastResult.inserted :
                /\ \A r \in records : r.id # lastResult.inserted[i]
                /\ \A c \in BagToSet(cells) : c.recordId # lastResult.inserted[i]
    /\ CreateSucceeded
       => \A i \in DOMAIN lastResult.inserted :
             /\ RecordRow(lastResult.inserted[i], lastResult.request.tableId,
                          lastResult.projectId) \in records
             /\ CellsOfRecord(cells, lastResult.inserted[i])
                   = AcceptedCells(lastResult.request.records[i], lastResult.inserted[i],
                                   lastResult.request.tableId, lastResult.projectId)

\* A create failed at its last storage step, after its records and cells had
\* been inserted.
C6_Witness ==
    /\ lastResult.op = "create"
    /\ lastResult.failedAt = "refetch"
    /\ \E i \in DOMAIN lastResult.request.records :
          AcceptedCells(lastResult.request.records[i], lastResult.inserted[i],
                        lastResult.request.tableId, lastResult.projectId) # EmptyBag

\* C7: getById(id, projectId) returns the record stored under that id and that
\* project, populated; when no record has that id under that project it fails
\* with ENTITY_NOT_FOUND for entity 'Record' and the id, and returns nothing.
C7_GetByIdScopedToProject ==
    lastResult.op = "getById" =>
        LET match == {r \in records : r.id = lastResult.id
                                      /\ r.projectId = lastResult.projectId}
        IN IF match = {}
           THEN /\ lastResult.err = EntityNotFound("Record", lastResult.id)
                /\ lastResult.data = {}
           ELSE /\ lastResult.err = NoError
                /\ lastResult.data = {Populated(r, cells) : r \in match}

\* getById named a record that exists, but under the other project.
C7_Witness ==
    /\ lastResult.op = "getById"
    /\ \E r \in records : r.id = lastResult.id /\ r.projectId # lastResult.projectId
    /\ lastResult.err.code = "ENTITY_NOT_FOUND"

\* C10: every stored cell names a field defined for the table and project of
\* the record it belongs to; an update that names another table than the
\* record's own writes nothing on that record.
C10_CellFieldInRecordScope ==
    \A c \in BagToSet(cells) :
        \A r \in records :
            r.id = c.recordId =>
                \E f \in Fields : /\ f.id = c.fieldId
                                  /\ f.tableId = r.tableId
                                  /\ f.projectId = r.projectId

\* An update with cells named an existing record of the project under
\* another table, and was refused.
C10_Witness ==
    /\ lastResult.op = "update"
    /\ lastResult.err.code = "ENTITY_NOT_FOUND"
    /\ \E r \in records : /\ r.id = lastResult.id
                          /\ r.projectId = lastResult.projectId
                          /\ r.tableId # lastResult.request.tableId
                          /\ KnownKey(lastResult.request.tableId, r.projectId, "a")

\* C11: an update naming (projectId, request.tableId, id) under which no record
\* is stored fails with ENTITY_NOT_FOUND for entity 'Record' and that id, issues
\* no upsert, and leaves the record and cell tables exactly as they were.
C11_UpdateNotFoundChangesNothing ==
    [][(/\ lastResult'.op = "update"
        /\ \A r \in records : ~(/\ r.projectId = lastResult'.projectId
                                 /\ r.tableId = lastResult'.request.tableId
                                 /\ r.id = lastResult'.id))
       => /\ lastResult'.err = EntityNotFound("Record", lastResult'.id)
          /\ lastResult'.data = {}
          /\ lastResult'.upserts = << >>
          /\ records' = records
          /\ cells' = cells
          /\ nextId' = nextId]_vars

\* An update was refused for a record that holds cells but is stored under
\* another project than the one the call named.
C11_Witness ==
    /\ lastResult.op = "update"
    /\ lastResult.err = EntityNotFound("Record", lastResult.id)
    /\ \E r \in records : /\ r.id = lastResult.id
                          /\ r.projectId # lastResult.projectId
                          /\ r.tableId = lastResult.request.tableId
    /\ CellsOfRecord(cells, lastResult.id) # EmptyBag

\* C8: delete(ids, projectId) returns exactly the populated records with an id
\* in ids under that project as they were stored immediately before the
\* deletion, removes exactly those, and getById on a removed id then fails.
C8_DeleteReturnsPreDeletionSet ==
    lastResult.op = "delete" =>
        /\ lastResult.data = lastResult.removed
        /\ \A r \in lastResult.removed :
              r.id \in lastResult.ids /\ r.projectId = lastResult.projectId
        /\ \A r \in records :
              ~(r.id \in lastResult.ids /\ r.projectId = lastResult.projectId)
        /\ \A r \in lastResult.removed : \A x \in records : x.id # r.id

\* C9: when no subscription matches (projectId, tableId, eventType),
\* triggerWebhooks returns without error, starts no delivery and does not read
\* the public-URL flag, so it succeeds also when the flag is unset.
C9_NoSubscriptionIsNoOp ==
    (/\ lastResult.op = "triggerWebhooks"
     /\ \A w \in webhooks : ~(/\ w.projectId = lastResult.projectId
                              /\ w.tableId = lastResult.tableId
                              /\ w.eventType = lastResult.eventType))
    => /\ lastResult.err = NoError
       /\ lastResult.started = {}
       /\ ~lastResult.flagRead

\* triggerWebhooks returned for an event nobody subscribed to, with other
\* subscriptions present and the flag unset.
C9_Witness ==
    /\ lastResult.op = "triggerWebhooks"
    /\ publicUrl = Nil
    /\ webhooks # {}
    /\ GetWebhooks(webhooks, lastResult.projectId, lastResult.tableId,
                   lastResult.eventType) = {}
    /\ lastResult.err = NoError

\* The subscriptions a triggerWebhooks call is about.
MatchingSubscriptions(call) ==
    {w \in webhooks : /\ w.projectId = call.projectId
                      /\ w.tableId = call.tableId
                      /\ w.eventType = call.eventType}

\* `started` holds one delivery for each subscription of `subs` and no other,
\* each to its subscription's flow with the call's payload and authorization.
OneDeliveryEach(started, subs, call) ==
    /\ Cardinality(started) = Cardinality(subs)
    /\ \A w \in subs :
          \E d \in started :
              /\ d.sub = w.id
              /\ d.flowId = w.flowId
              /\ d.body = call.data
              /\ d.authorization = call.authorization
              /\ \A e \in started : e.sub = w.id => e = d
    /\ \A d \in started : \E w \in subs : d.sub = w.id

\* C12: with at least one matching subscription, triggerWebhooks reads the
\* public-URL flag before it starts anything; with the flag nil it fails with
\* ENTITY_NOT_FOUND for entity 'Flag' and no delivery was started; otherwise,
\* by the time it awaits, exactly one delivery per matching subscription is
\* started (to that subscription's flow, with the call's payload and
\* authorization), and it returns without error only once none of them is
\* still pending.
C12_FlagThenFanOutThenJoin ==
    /\ wctx.pc = "flag" => MatchingSubscriptions(wctx.call) # {}
    /\ wctx.pc = "awaiting" =>
          /\ publicUrl # Nil
          /\ OneDeliveryEach(wctx.started, MatchingSubscriptions(wctx.call), wctx.call)
          /\ wctx.pending \subseteq wctx.started
    /\ (lastResult.op = "triggerWebhooks" /\ MatchingSubscriptions(lastResult) # {})
       => /\ lastResult.flagRead
          /\ IF publicUrl = Nil
             THEN /\ lastResult.err = EntityNotFound("Flag", "PUBLIC_URL")
                  /\ lastResult.started = {}
             ELSE /\ OneDeliveryEach(lastResult.started,
                                     MatchingSubscriptions(lastResult), lastResult)
                  /\ lastResult.err = NoError => lastResult.pending = {}

\* triggerWebhooks returned after the deliveries to two subscriptions had both
\* completed.
C12_Witness ==
    /\ lastResult.op = "triggerWebhooks"
    /\ lastResult.err = NoError
    /\ Cardinality(MatchingSubscriptions(lastResult)) = 2
    /\ Cardinality(lastResult.started) = 2
    /\ lastResult.pending = {}

\* What the comparison `value operator filterValue` of a filter means.
FilterHolds(value, operator, filterValue) ==
    CASE operator \in {"EQ", NoOperator} -> value = filterValue
      [] operator = "NEQ" -> value # filterValue
      [] operator = "GT" -> value > filterValue
      [] operator = "GTE" -> value >= filterValue
      [] operator = "LT" -> value < filterValue
      [] operator = "LTE" -> value <= filterValue

\* C1: list returns only records of (tableId, projectId) that have, for every
\* filter of the list, a cell of that filter's own field whose value compares
\* to that filter's own value under that filter's operator.
C1_ListSatisfiesEveryFilter ==
    lastResult.op = "list" =>
        \A r \in lastResult.data :
            /\ r.tableId = lastResult.tableId
            /\ r.projectId = lastResult.projectId
            /\ \A i \in DOMAIN lastResult.filters :
                  \E c \in BagToSet(r.cells) :
                      /\ c.fieldId = lastResult.filters[i].fieldId
                      /\ FilterHolds(c.value, lastResult.filters[i].operator,
                                     lastResult.filters[i].value)

====
